---- MODULE Spec2Model ----
(***************************************************************************)
(* Model of source/nvidia/cuda/nvidia-cuda.cpp (StreamFX): the dynamically *)
(* bound CUDA driver handle streamfx::nvidia::cuda::cuda, its constructor  *)
(* (library load, staged symbol resolution, version query, cuInit), its    *)
(* destructor, and the weak-pointer singleton accessor cuda::get().        *)
(*                                                                         *)
(* Consumer threads call get(), hold the returned std::shared_ptr and drop *)
(* it again.  Every step that another thread can observe is one action:    *)
(* the mutex acquisition, the expired() test, the library load, each block *)
(* of the constructor, the weak_ptr::lock(), the last release, the         *)
(* destructor, and a call of version() on the handle in hand.              *)
(***************************************************************************)
EXTENDS Naturals, Sequences, FiniteSets, TLC

\* ------------------------------------------------------------------ bounds

\* Number of consumer threads.
NumThreads == 3
\* Number of cuda objects that may be constructed in one behaviour.
MaxHandles == 3
\* Symbols the opened library may lack in one construction, concurrent model.
ConcMissing == 1
\* Symbols the opened library may lack in one construction, sequential model.
MaxMissing == 2
\* Number of cuda objects that may be constructed in the sequential model.
SeqHandles == 2
\* Largest raw driver version of the decoding model.
MaxVersion == 12100

Threads == 1..NumThreads
Handles == 1..MaxHandles
\* The thread of the sequential model.
SeqThreads == {1}

\* Raw values the driver may report from cuDriverGetVersion, in the sequential and in
\* the concurrent model.
SeqVersions == {11020, 11060}
ConcVersions == {11060}
\* ... and in the decoding model.
DecodeVersions == 0..MaxVersion

\* ----------------------------------------------------------- build target

\* win: _WIN32 or _WIN64 is defined (line 41); WIN32: WIN32 is defined (line 234).
Builds ==
    { [win |-> FALSE, WIN32 |-> FALSE],
      [win |-> TRUE,  WIN32 |-> TRUE],
      [win |-> TRUE,  WIN32 |-> FALSE] }

ST_CUDA_NAME(b) == IF b.win THEN "nvcuda.dll" ELSE "libcuda.so.1"

\* ------------------------------------------------------------ symbol table

\* A use of one of the four binding macros P_CUDA_LOAD_<m>(n).
Sym(n, m) == [name |-> n, macro |-> m]

\* Block 1 with its two macros in the other order.
CriticalTableReversed ==
    << Sym("cuDriverGetVersion", "SYMBOL"),
       Sym("cuInit", "SYMBOL") >>

\* 1. Load critical initialization functions.
CriticalTable ==
    << Sym("cuInit", "SYMBOL"),
       Sym("cuDriverGetVersion", "SYMBOL") >>

\* 3. Load remaining functions (all targets).
RemainingTable ==
    << Sym("cuDeviceGetName", "SYMBOL"),
       Sym("cuDeviceGetLuid", "SYMBOL"),
       Sym("cuDeviceGetUuid", "SYMBOL"),
       Sym("cuDevicePrimaryCtxRetain", "SYMBOL"),
       Sym("cuDevicePrimaryCtxRelease", "SYMBOL_V2"),
       Sym("cuDevicePrimaryCtxSetFlags", "SYMBOL_OPT_V2"),
       Sym("cuCtxCreate", "SYMBOL_V2"),
       Sym("cuCtxDestroy", "SYMBOL_V2"),
       Sym("cuCtxPushCurrent", "SYMBOL_V2"),
       Sym("cuCtxPopCurrent", "SYMBOL_V2"),
       Sym("cuCtxGetCurrent", "SYMBOL_OPT"),
       Sym("cuCtxSetCurrent", "SYMBOL_OPT"),
       Sym("cuCtxGetStreamPriorityRange", "SYMBOL"),
       Sym("cuCtxSynchronize", "SYMBOL"),
       Sym("cuMemAlloc", "SYMBOL_V2"),
       Sym("cuMemAllocPitch", "SYMBOL_V2"),
       Sym("cuMemFree", "SYMBOL_V2"),
       Sym("cuMemcpy", "SYMBOL"),
       Sym("cuMemcpy2D", "SYMBOL_V2"),
       Sym("cuMemcpy2DAsync", "SYMBOL_V2"),
       Sym("cuArrayGetDescriptor", "SYMBOL_OPT_V2"),
       Sym("cuMemcpyAtoA", "SYMBOL_OPT_V2"),
       Sym("cuMemcpyAtoD", "SYMBOL_OPT_V2"),
       Sym("cuMemcpyAtoH", "SYMBOL_OPT_V2"),
       Sym("cuMemcpyAtoHAsync", "SYMBOL_OPT_V2"),
       Sym("cuMemcpyDtoA", "SYMBOL_OPT_V2"),
       Sym("cuMemcpyDtoD", "SYMBOL_OPT_V2"),
       Sym("cuMemcpyDtoH", "SYMBOL_OPT_V2"),
       Sym("cuMemcpyDtoHAsync", "SYMBOL_OPT_V2"),
       Sym("cuMemcpyHtoA", "SYMBOL_OPT_V2"),
       Sym("cuMemcpyHtoAAsync", "SYMBOL_OPT_V2"),
       Sym("cuMemcpyHtoD", "SYMBOL_OPT_V2"),
       Sym("cuMemcpyHtoDAsync", "SYMBOL_OPT_V2"),
       Sym("cuMemHostGetDevicePointer", "SYMBOL_OPT_V2"),
       Sym("cuMemsetD8", "SYMBOL_V2"),
       Sym("cuMemsetD8Async", "SYMBOL"),
       Sym("cuMemsetD16", "SYMBOL_OPT_V2"),
       Sym("cuMemsetD16Async", "SYMBOL_OPT"),
       Sym("cuMemsetD32", "SYMBOL_OPT_V2"),
       Sym("cuMemsetD32Async", "SYMBOL_OPT"),
       Sym("cuStreamCreate", "SYMBOL"),
       Sym("cuStreamDestroy", "SYMBOL_V2"),
       Sym("cuStreamSynchronize", "SYMBOL"),
       Sym("cuStreamCreateWithPriority", "SYMBOL_OPT"),
       Sym("cuStreamGetPriority", "SYMBOL_OPT"),
       Sym("cuGraphicsMapResources", "SYMBOL"),
       Sym("cuGraphicsSubResourceGetMappedArray", "SYMBOL"),
       Sym("cuGraphicsUnmapResources", "SYMBOL"),
       Sym("cuGraphicsUnregisterResource", "SYMBOL") >>

\* Direct3D10/11 interoperability, inside #ifdef WIN32.
D3DTable ==
    << Sym("cuD3D10GetDevice", "SYMBOL"),
       Sym("cuGraphicsD3D10RegisterResource", "SYMBOL_OPT"),
       Sym("cuD3D11GetDevice", "SYMBOL"),
       Sym("cuGraphicsD3D11RegisterResource", "SYMBOL_OPT") >>

\* The symbols of block 3 as the preprocessor leaves them for build b.
BulkTable(b) == IF b.WIN32 THEN RemainingTable \o D3DTable ELSE RemainingTable

\* All symbols a build binds, in resolution order.
FullTable(b) == CriticalTable \o BulkTable(b)

Range(s) == {s[i] : i \in DOMAIN s}

\* Every function pointer member of the class (logical names).
EntryNames == {e.name : e \in Range(CriticalTable \o RemainingTable \o D3DTable)}

\* A versioned macro that forgets the suffix.
LookupNamePlain(e) == e.name

\* The name a macro passes to _library->load_symbol for logical name n.
LookupName(e) ==
    IF e.macro \in {"SYMBOL_V2", "SYMBOL_OPT_V2"} THEN e.name \o "_v2" ELSE e.name

\* Versioned macros that only warn.
RequiredExactOnly(e) == e.macro = "SYMBOL"

\* Whether a macro throws std::runtime_error when the lookup returns null.
Required(e) == e.macro \in {"SYMBOL", "SYMBOL_V2"}

\* An error that names the symbol as it was looked up, suffix included.
SymbolErrorSuffixed(e, b) ==
    [thrown |-> TRUE, stage |-> "symbol", what |-> LookupName(e), from |-> ST_CUDA_NAME(b)]

\* The std::runtime_error a required macro throws: "Failed to load '<what>' from
\* '<from>'."
SymbolError(e, b) == [thrown |-> TRUE, stage |-> "symbol", what |-> e.name, from |-> ST_CUDA_NAME(b)]

\* The library loader (streamfx::util::library, not part of this file): load either
\* yields an open library or signals a failure; the library is closed when its owner
\* lets go of it.  (load_symbol yields an address or null: see BindAll.)
LibraryLoadResults == {"open", "failure"}
LibraryRelease(l) == IF l = "open" THEN "closed" ELSE l

\* The failure streamfx::util::library::load signals when the file cannot be opened.
LoadError(b) == [thrown |-> TRUE, stage |-> "load", what |-> "", from |-> ST_CUDA_NAME(b)]

NoError == [thrown |-> FALSE, stage |-> "", what |-> "", from |-> ""]

\* What a consumer has in hand after get(): nothing, a shared_ptr to handle h, an
\* empty shared_ptr, or the exception get() let through.
NoResult == [kind |-> "none", h |-> 0]
HandleRef(h) == [kind |-> "handle", h |-> h]
NullRef == [kind |-> "null", h |-> 0]
Failure == [kind |-> "exc", h |-> 0]

\* The latest call of version(): not made, or made on handle h, where the driver
\* call succeeded or not (ok), wrote value v through the pointer or not (wrote), and
\* the call ended by returning ret ("return") or by jumping through a pointer that
\* was never bound ("fault").
NoCall == [made |-> FALSE, h |-> 0, ok |-> FALSE, wrote |-> FALSE, v |-> 0,
           how |-> "", ret |-> 0]
VersionCall(h, ok, wrote, v, how, ret) ==
    [made |-> TRUE, h |-> h, ok |-> ok, wrote |-> wrote, v |-> v, how |-> how, ret |-> ret]

\* ------------------------------------------------------------------ logging

LogLine(level, msg, sym, ver) == [level |-> level, msg |-> msg, sym |-> sym, ver |-> ver]
NoVer == <<0, 0, 0>>
LogInitializing == LogLine("DEBUG", "Initializing", "", NoVer)
LogVersion(ver) == LogLine("INFO", "Driver reported CUDA version", "", ver)
LogVersionFailed == LogLine("WARNING", "Failed to query NVIDIA CUDA Driver for version", "", NoVer)
LogOptionalMissing(e) == LogLine("WARNING", "Loading of optional symbol failed", e.name, NoVer)

\* A decoding that takes the hundreds digit for the minor version.
DecodeVersionHundreds(v) == << v \div 1000, (v % 1000) \div 100, v % 10 >>

\* Lines 109-111: the decoding of the raw driver version.
DecodeVersion(v) == << v \div 1000, (v % 1000) \div 10, v % 10 >>

\* -------------------------------------------------------------------- state

VARIABLES
    build,      \* the preprocessor configuration the file was built with
    pc,         \* pc[t]: where consumer thread t is
    res,        \* res[t]: what t got from its last get() and still has in hand
    dying,      \* dying[t]: the handle whose destructor t is running (0: none)
    heldSince,  \* heldSince[t]: handles strongly referenced ever since t called get()
    mutex,      \* static std::mutex lock: 0 free, else the owning thread
    instance,   \* static std::weak_ptr instance: 0 empty, else the handle it tracks
    nextId,     \* identity of the next cuda object to be allocated
    cur,        \* the object make_shared is constructing (this), 0 when none
    hstate,     \* hstate[h]: lifecycle state of object h
    strong,     \* strong[h]: use_count of h's control block
    entry,      \* entry[h][n]: function pointer member n of h
    lib,        \* lib[h]: the native library h's _library member opened
    lookups,    \* names passed to load_symbol by the latest construction
    thrown,     \* the exception the latest construction threw (NoError: none)
    ctorLog,    \* lines logged by the latest construction
    initCalls,  \* initCalls[h]: how often h's constructor invoked cuInit
    answers,    \* what load_symbol returned to the latest construction, per lookup
    cuda_version, \* the constructor's local cuda_version (line 93)
    initResult, \* the result code cuInit(0) returned to the latest construction
    vcall       \* the latest call of version() on the handle in hand

vars == << build, pc, res, dying, heldSince, mutex, instance, nextId, cur,
           hstate, strong, entry, lib, lookups, thrown, ctorLog, initCalls,
           answers, cuda_version, initResult, vcall >>

Unset == [n \in EntryNames |-> "unset"]

\* A registry test that only asks whether the slot was ever filled.
ExpiredOnlyIfEmpty == instance = 0

\* instance.expired()
Expired == instance = 0 \/ strong[instance] = 0

\* Positions inside cuda::get().
InGet == {"wait", "check", "load", "critical", "version", "bulk", "init",
          "store", "lockweak", "unwind"}

Init ==
    /\ build \in Builds
    /\ pc = [t \in Threads |-> "idle"]
    /\ res = [t \in Threads |-> NoResult]
    /\ dying = [t \in Threads |-> 0]
    /\ heldSince = [t \in Threads |-> {}]
    /\ mutex = 0
    /\ instance = 0
    /\ nextId = 1
    /\ cur = 0
    /\ hstate = [h \in Handles |-> "Unconstructed"]
    /\ strong = [h \in Handles |-> 0]
    /\ entry = [h \in Handles |-> Unset]
    /\ lib = [h \in Handles |-> "none"]
    /\ lookups = << >>
    /\ thrown = NoError
    /\ ctorLog = << >>
    /\ initCalls = [h \in Handles |-> 0]
    /\ answers = << >>
    /\ cuda_version = 0
    /\ initResult = "none"
    /\ vcall = NoCall

\* ------------------------------------------------------------- consumers

\* Null results of load_symbol so far in the construction of h.
Misses(h) == Cardinality({n \in EntryNames : entry[h][n] = "null"})

\* A consumer calls cuda::get().  Every call may have to construct an object, so a
\* call is made only while an object identity is left for it.
Call(t, limit) ==
    /\ pc[t] = "idle"
    /\ res[t].kind \in {"none", "exc"}
    /\ Cardinality({u \in Threads : pc[u] \in InGet}) + nextId <= limit
    /\ pc' = [pc EXCEPT ![t] = "wait"]
    /\ res' = [res EXCEPT ![t] = NoResult]
    /\ heldSince' = [heldSince EXCEPT ![t] = {h \in Handles : strong[h] > 0}]
    /\ UNCHANGED << answers, cuda_version, initResult, vcall,
                    build, dying, mutex, instance, nextId, cur,  hstate, strong,
                    entry, lib, lookups, thrown, ctorLog, initCalls >>

\* get() entered without waiting for the mutex.
AcquireUnguarded(t) ==
    /\ pc[t] = "wait"
    /\ mutex' = t
    /\ pc' = [pc EXCEPT ![t] = "check"]
    /\ UNCHANGED << answers, cuda_version, initResult, vcall,
                    build, res, dying, heldSince, instance, nextId, cur, hstate,
                    strong, entry, lib, lookups, thrown, ctorLog, initCalls >>

\* Line 264: std::unique_lock<std::mutex> ul(lock).
Acquire(t) ==
    /\ pc[t] = "wait"
    /\ mutex = 0
    /\ mutex' = t
    /\ pc' = [pc EXCEPT ![t] = "check"]
    /\ UNCHANGED << answers, cuda_version, initResult, vcall,
                    build, res, dying, heldSince, instance, nextId, cur,  hstate,
                    strong, entry, lib, lookups, thrown, ctorLog, initCalls >>

\* A registry test that always constructs.
CheckExpiredAlwaysConstructs(t) ==
    /\ pc[t] = "check"
    /\ nextId <= MaxHandles
    /\ cur' = nextId
    /\ nextId' = nextId + 1
    /\ hstate' = [hstate EXCEPT ![nextId] = "Loading"]
    /\ ctorLog' = << LogInitializing >>
    /\ lookups' = << >>
    /\ answers' = << >>
    /\ cuda_version' = 0
    /\ initResult' = "none"
    /\ thrown' = NoError
    /\ pc' = [pc EXCEPT ![t] = "load"]
    /\ UNCHANGED << vcall,
                    build, res, dying, heldSince, mutex, instance, strong, entry,
                    lib, initCalls >>

\* Line 265: if (instance.expired()); on true, make_shared allocates the object and
\* enters the constructor (lines 91-95: cuda_version = 0, "Initializing...").
CheckExpired(t) ==
    /\ pc[t] = "check"
    /\ IF Expired
       THEN /\ nextId <= MaxHandles
            /\ cur' = nextId
            /\ nextId' = nextId + 1
            /\ hstate' = [hstate EXCEPT ![nextId] = "Loading"]
            /\ ctorLog' = << LogInitializing >>
            /\ lookups' = << >>
            /\ answers' = << >>
            /\ cuda_version' = 0
            /\ initResult' = "none"
            /\ thrown' = NoError
            /\ pc' = [pc EXCEPT ![t] = "load"]
       ELSE /\ pc' = [pc EXCEPT ![t] = "lockweak"]
            /\ UNCHANGED << cur, nextId, hstate, ctorLog, lookups, thrown,
                            answers, cuda_version, initResult >>
    /\ UNCHANGED << vcall,
                    build, res, dying, heldSince, mutex, instance,  strong, entry,
                    lib, initCalls >>

\* An exception leaving the constructor without the members being destroyed.
ThrowLeaking(t, exc) ==
    /\ hstate' = [hstate EXCEPT ![cur] = "Failed"]
    /\ lib' = lib
    /\ entry' = [entry EXCEPT ![cur] = Unset]
    /\ thrown' = exc
    /\ pc' = [pc EXCEPT ![t] = "unwind"]
    /\ UNCHANGED res
    /\ cur' = 0

\* An exception leaves the constructor: the members built so far are destroyed
\* (_library is released), the storage is freed, and the exception travels on.
Throw(t, exc) ==
    /\ hstate' = [hstate EXCEPT ![cur] = "Failed"]
    /\ lib' = [lib EXCEPT ![cur] = LibraryRelease(@)]
    /\ entry' = [entry EXCEPT ![cur] = Unset]
    /\ thrown' = exc
    /\ pc' = [pc EXCEPT ![t] = "unwind"]
    /\ UNCHANGED res
    /\ cur' = 0

\* Line 97: _library = streamfx::util::library::load(ST_CUDA_NAME).
CtorLoad(t) ==
    /\ pc[t] = "load"
    /\ \E loaded \in LibraryLoadResults :
         IF loaded = "open"
         THEN /\ lib' = [lib EXCEPT ![cur] = "open"]
              /\ hstate' = [hstate EXCEPT ![cur] = "Resolving"]
              /\ pc' = [pc EXCEPT ![t] = "critical"]
              /\ UNCHANGED << res, entry, cur, thrown >>
         ELSE Throw(t, LoadError(build))
    /\ UNCHANGED << answers, cuda_version, initResult, vcall,
                    build, dying, heldSince, mutex, instance, nextId, strong, lookups,
                    ctorLog, initCalls >>

\* What a run of binding macros has done so far: the pointers assigned, the names
\* passed to load_symbol and what it returned (TRUE: an address, FALSE: null), the
\* lines logged, and the exception thrown (if any).
Progress(h) ==
    [entry |-> entry[h], lookups |-> lookups, answers |-> answers, log |-> ctorLog,
     error |-> NoError]

\* Every name any build passes to load_symbol.
LookupNames == {LookupName(e) : e \in Range(CriticalTable \o RemainingTable \o D3DTable)}

\* The libraries of the sequential model: any of the names may be absent.
SeqEnv == [lacking |-> LookupNames, budget |-> MaxMissing]

\* The libraries of the concurrent model: one symbol of each binding policy, and one
\* of the critical block, may be absent.
ConcLacking == {"cuDriverGetVersion", "cuMemAlloc_v2", "cuCtxGetCurrent", "cuMemcpyAtoA_v2"}
ConcEnv == [lacking |-> ConcLacking, budget |-> ConcMissing]

\* Every macro throwing on null, the optional ones too.
BindMacroStrict(e, found, acc, b) ==
    [entry   |-> [acc.entry EXCEPT ![e.name] = IF found THEN "bound" ELSE "null"],
     lookups |-> Append(acc.lookups, LookupName(e)),
     answers |-> Append(acc.answers, found),
     log     |-> acc.log,
     error   |-> IF ~found THEN SymbolError(e, b) ELSE acc.error]

\* No macro throwing on null: every one only warns.
BindMacroLenient(e, found, acc, b) ==
    [entry   |-> [acc.entry EXCEPT ![e.name] = IF found THEN "bound" ELSE "null"],
     lookups |-> Append(acc.lookups, LookupName(e)),
     answers |-> Append(acc.answers, found),
     log     |-> IF ~found THEN Append(acc.log, LogOptionalMissing(e)) ELSE acc.log,
     error   |-> acc.error]

\* One use of a binding macro on table entry e, `found` being whether load_symbol
\* returned an address: the lookup, the assignment, and the throw (required) or the
\* warning (optional) on null.
BindMacro(e, found, acc, b) ==
    [entry   |-> [acc.entry EXCEPT ![e.name] = IF found THEN "bound" ELSE "null"],
     lookups |-> Append(acc.lookups, LookupName(e)),
     answers |-> Append(acc.answers, found),
     log     |-> IF ~found /\ ~Required(e)
                 THEN Append(acc.log, LogOptionalMissing(e)) ELSE acc.log,
     error   |-> IF ~found /\ Required(e) THEN SymbolError(e, b) ELSE acc.error]

\* What _library->load_symbol can return for the name of table entry e, the
\* environment being env: an address (TRUE) or, for a name the library may lack and
\* while the budget lasts, null (FALSE).
LoadSymbolResults(e, env) ==
    IF env.budget = 0 \/ LookupName(e) \notin env.lacking THEN {TRUE} ELSE {TRUE, FALSE}

\* The macros of tbl from entry i on, in source order, against every library the
\* environment env allows: load_symbol may return null for the names in env.lacking,
\* at most env.budget times.  The result is the set of ways the block can end; a
\* throw ends the block at once.
RECURSIVE BindAll(_, _, _, _, _)
BindAll(tbl, i, env, acc, b) ==
    IF i > Len(tbl) \/ acc.error.thrown
    THEN {acc}
    ELSE UNION { BindAll(tbl, i + 1, step.env, step.acc, b) :
                   step \in { [env |-> IF found THEN env
                                       ELSE [env EXCEPT !.budget = @ - 1],
                               acc |-> BindMacro(tbl[i], found, acc, b)] :
                              found \in LoadSymbolResults(tbl[i], env) } }

\* What is left of the environment's budget in the construction of h.
Remaining(env, h) == [env EXCEPT !.budget = @ - Misses(h)]

\* A block of binding macros run by the constructor of cur; `after` is where the
\* constructor goes on when no macro threw.
ResolveBlock(t, tbl, env, after) ==
    \E out \in BindAll(tbl, 1, Remaining(env, cur), Progress(cur), build) :
        /\ lookups' = out.lookups
        /\ answers' = out.answers
        /\ ctorLog' = out.log
        /\ IF out.error.thrown
           THEN Throw(t, out.error)
           ELSE /\ entry' = [entry EXCEPT ![cur] = out.entry]
                /\ pc' = [pc EXCEPT ![t] = after]
                /\ hstate' = [hstate EXCEPT ![cur] =
                                 IF after = "init" THEN "DriverInit" ELSE @]
                /\ UNCHANGED << res, lib, cur, thrown >>

\* Lines 99-105: block 1, the critical initialization functions.
ResolveCritical(t, env) ==
    /\ pc[t] = "critical"
    /\ ResolveBlock(t, CriticalTable, env, "version")
    /\ UNCHANGED << cuda_version, initResult, vcall,
                    build, dying, heldSince, mutex, instance, nextId, strong, initCalls >>

\* A constructor without block 2.
QueryVersionSkipped(t, versions) ==
    /\ pc[t] = "version"
    /\ pc' = [pc EXCEPT ![t] = "bulk"]
    /\ UNCHANGED << answers, cuda_version, initResult, vcall, ctorLog,
                    build, res, dying, heldSince, mutex, instance, nextId, cur,  hstate,
                    strong, entry, lib, lookups, thrown, initCalls >>

\* Lines 107-116: block 2, the diagnostic version query.
QueryVersion(t, versions) ==
    /\ pc[t] = "version"
    /\ \E ok \in BOOLEAN, v \in versions :
         IF ok
         THEN /\ cuda_version' = v
              /\ ctorLog' = Append(ctorLog, LogVersion(DecodeVersion(v)))
         ELSE /\ cuda_version' = cuda_version
              /\ ctorLog' = Append(ctorLog, LogVersionFailed)
    /\ pc' = [pc EXCEPT ![t] = "bulk"]
    /\ UNCHANGED << answers, initResult, vcall,
                    build, res, dying, heldSince, mutex, instance, nextId, cur,  hstate,
                    strong, entry, lib, lookups, thrown, initCalls >>

\* Lines 118-246: block 3, the remaining functions.
ResolveBulk(t, env) ==
    /\ pc[t] = "bulk"
    /\ ResolveBlock(t, BulkTable(build), env, "init")
    /\ UNCHANGED << cuda_version, initResult, vcall,
                    build, dying, heldSince, mutex, instance, nextId, strong, initCalls >>

\* The result codes a driver call returns: result::SUCCESS or an error.
ResultCodes == {"SUCCESS", "ERROR"}

\* A constructor that treats a failing cuInit as fatal.
DriverInitChecked(t) ==
    /\ pc[t] = "init"
    /\ \E result \in ResultCodes :
         /\ initCalls' = [initCalls EXCEPT ![cur] = @ + 1]
         /\ initResult' = result
         /\ IF result = "SUCCESS"
            THEN /\ hstate' = [hstate EXCEPT ![cur] = "Ready"]
                 /\ strong' = [strong EXCEPT ![cur] = 1]
                 /\ pc' = [pc EXCEPT ![t] = "store"]
                 /\ UNCHANGED << res, cur, entry, lib, thrown >>
            ELSE /\ Throw(t, [thrown |-> TRUE, stage |-> "init", what |-> "cuInit",
                              from |-> ST_CUDA_NAME(build)])
                 /\ UNCHANGED strong
    /\ UNCHANGED << answers, cuda_version, vcall,
                    build, dying, heldSince, mutex, instance, nextId,
                    lookups, ctorLog >>

\* A constructor that initializes the driver a second time.
DriverInitTwice(t) ==
    /\ pc[t] = "init"
    /\ \E result \in ResultCodes :
         /\ initCalls' = [initCalls EXCEPT ![cur] = @ + 2]
         /\ initResult' = result
    /\ hstate' = [hstate EXCEPT ![cur] = "Ready"]
    /\ strong' = [strong EXCEPT ![cur] = 1]
    /\ pc' = [pc EXCEPT ![t] = "store"]
    /\ UNCHANGED << answers, cuda_version, vcall,
                    build, res, dying, heldSince, mutex, instance, nextId, cur,
                    entry, lib, lookups, thrown, ctorLog >>

\* Line 249: cuInit(0), its result ignored; the constructor returns and make_shared
\* hands the first strong reference to hard_instance (line 266).
DriverInit(t) ==
    /\ pc[t] = "init"
    /\ \E result \in ResultCodes :
         /\ initCalls' = [initCalls EXCEPT ![cur] = @ + 1]
         /\ initResult' = result
    /\ hstate' = [hstate EXCEPT ![cur] = "Ready"]
    /\ strong' = [strong EXCEPT ![cur] = 1]
    /\ pc' = [pc EXCEPT ![t] = "store"]
    /\ UNCHANGED << answers, cuda_version, vcall,
                    build, res, dying, heldSince, mutex, instance, nextId, cur,
                    entry, lib, lookups, thrown, ctorLog >>

\* Lines 267-268: instance = hard_instance; return hard_instance; ul unlocks.
StoreAndReturn(t) ==
    /\ pc[t] = "store"
    /\ instance' = cur
    /\ res' = [res EXCEPT ![t] = HandleRef(cur)]
    /\ cur' = 0
    /\ mutex' = 0
    /\ pc' = [pc EXCEPT ![t] = "idle"]
    /\ UNCHANGED << answers, cuda_version, initResult, vcall,
                    build, dying, heldSince, nextId,  hstate, strong, entry, lib,
                    lookups, thrown, ctorLog, initCalls >>

\* get() catching the exception and returning an empty pointer instead.
UnwindSwallowed(t) ==
    /\ pc[t] = "unwind"
    /\ res' = [res EXCEPT ![t] = NullRef]
    /\ mutex' = 0
    /\ pc' = [pc EXCEPT ![t] = "idle"]
    /\ UNCHANGED << answers, cuda_version, initResult, vcall,
                    build, dying, heldSince, instance, nextId, cur, hstate,
                    strong, entry, lib, lookups, thrown, ctorLog, initCalls >>

\* An exception path on which ul is not unlocked.
UnwindHoldingLock(t) ==
    /\ pc[t] = "unwind"
    /\ res' = [res EXCEPT ![t] = Failure]
    /\ pc' = [pc EXCEPT ![t] = "idle"]
    /\ UNCHANGED << answers, cuda_version, initResult, vcall, mutex,
                    build, dying, heldSince, instance, nextId, cur,  hstate,
                    strong, entry, lib, lookups, thrown, ctorLog, initCalls >>

\* The exception leaves get(): ul's destructor unlocks, instance was never assigned.
Unwind(t) ==
    /\ pc[t] = "unwind"
    /\ res' = [res EXCEPT ![t] = Failure]
    /\ mutex' = 0
    /\ pc' = [pc EXCEPT ![t] = "idle"]
    /\ UNCHANGED << answers, cuda_version, initResult, vcall,
                    build, dying, heldSince, instance, nextId, cur,  hstate,
                    strong, entry, lib, lookups, thrown, ctorLog, initCalls >>

\* A get() that hands out the object without taking a share in it.
LockWeakUncounted(t) ==
    /\ pc[t] = "lockweak"
    /\ res' = [res EXCEPT ![t] = HandleRef(instance)]
    /\ mutex' = 0
    /\ pc' = [pc EXCEPT ![t] = "idle"]
    /\ UNCHANGED << answers, cuda_version, initResult, vcall,
                    build, dying, heldSince, instance, nextId, cur, hstate, strong, entry,
                    lib, lookups, thrown, ctorLog, initCalls >>

\* Line 270: return instance.lock(); ul unlocks.  lock() yields an empty pointer
\* when the use count has dropped to zero since the expired() test.
LockWeak(t) ==
    /\ pc[t] = "lockweak"
    /\ IF strong[instance] > 0
       THEN /\ strong' = [strong EXCEPT ![instance] = @ + 1]
            /\ res' = [res EXCEPT ![t] = HandleRef(instance)]
       ELSE /\ res' = [res EXCEPT ![t] = NullRef]
            /\ UNCHANGED strong
    /\ mutex' = 0
    /\ pc' = [pc EXCEPT ![t] = "idle"]
    /\ UNCHANGED << answers, cuda_version, initResult, vcall,
                    build, dying, heldSince, instance, nextId, cur,  hstate, entry,
                    lib, lookups, thrown, ctorLog, initCalls >>

\* A consumer drops its shared_ptr; no lock is taken.  The thread that drops the
\* last strong reference goes on to run the destructor.
Release(t) ==
    /\ pc[t] = "idle"
    /\ res[t].kind \in {"handle", "null"}
    /\ res' = [res EXCEPT ![t] = NoResult]
    /\ vcall' = NoCall
    /\ IF res[t].kind = "handle"
       THEN LET h == res[t].h IN
            /\ strong' = [strong EXCEPT ![h] = @ - 1]
            /\ IF strong[h] = 1
               THEN /\ pc' = [pc EXCEPT ![t] = "dtor"]
                    /\ dying' = [dying EXCEPT ![t] = h]
                    /\ heldSince' = [u \in Threads |-> IF u = t THEN {} ELSE heldSince[u] \ {h}]
               ELSE /\ heldSince' = [heldSince EXCEPT ![t] = {}]
                    /\ UNCHANGED << pc, dying >>
       ELSE /\ heldSince' = [heldSince EXCEPT ![t] = {}]
            /\ UNCHANGED << strong, pc, dying >>
    /\ UNCHANGED << answers, cuda_version, initResult,
                    build, mutex, instance, nextId, cur,  hstate, entry, lib,
                    lookups, thrown, ctorLog, initCalls >>

\* Lines 86-89: ~cuda() logs, then the members are destroyed: _library is released
\* and the native library closed; the storage is freed.
Destroy(t) ==
    /\ pc[t] = "dtor"
    /\ hstate' = [hstate EXCEPT ![dying[t]] = "Destroyed"]
    /\ lib' = [lib EXCEPT ![dying[t]] = LibraryRelease(@)]
    /\ entry' = [entry EXCEPT ![dying[t]] = Unset]
    /\ dying' = [dying EXCEPT ![t] = 0]
    /\ pc' = [pc EXCEPT ![t] = "idle"]
    /\ UNCHANGED << answers, cuda_version, initResult, vcall,
                    build, res, heldSince, mutex, instance, nextId, cur,  strong,
                    lookups, thrown, ctorLog, initCalls >>

\* A version() that hands the driver's error on to its caller.
VersionFailureCode(t, versions) ==
    /\ pc[t] = "idle"
    /\ res[t].kind = "handle"
    /\ \E ok \in BOOLEAN, wrote \in BOOLEAN, v \in versions :
         /\ ok => wrote
         /\ vcall' = VersionCall(res[t].h, ok, wrote, IF wrote THEN v ELSE 0, "return",
                                 IF ok THEN v ELSE 999)
    /\ UNCHANGED << build, pc, res, dying, heldSince, mutex, instance, nextId, cur,
                    hstate, strong, entry, lib, lookups, thrown, ctorLog, initCalls,
                    answers, cuda_version, initResult >>

\* Lines 252-257: version().  v = 0; cuDriverGetVersion(&v), its result ignored;
\* return v.  The driver call succeeds (and then has written the version) or fails
\* (and may or may not have written something).  The call goes through the member
\* function pointer, whatever the constructor left in it.
Version(t, versions) ==
    /\ pc[t] = "idle"
    /\ res[t].kind = "handle"
    /\ IF entry[res[t].h]["cuDriverGetVersion"] = "bound"
       THEN \E ok \in BOOLEAN, wrote \in BOOLEAN, v \in versions :
              /\ ok => wrote
              /\ vcall' = VersionCall(res[t].h, ok, wrote, IF wrote THEN v ELSE 0,
                                      "return", IF wrote THEN v ELSE 0)
       ELSE vcall' = VersionCall(res[t].h, FALSE, FALSE, 0, "fault", 0)
    /\ UNCHANGED << build, pc, res, dying, heldSince, mutex, instance, nextId, cur,
                    hstate, strong, entry, lib, lookups, thrown, ctorLog, initCalls,
                    answers, cuda_version, initResult >>

\* ----------------------------------------------------------- specifications

\* Concurrent consumers.
Next ==
    \E t \in Threads :
        \/ Call(t, MaxHandles)
        \/ Acquire(t)
        \/ CheckExpired(t)
        \/ CtorLoad(t)
        \/ ResolveCritical(t, ConcEnv)
        \/ QueryVersion(t, ConcVersions)
        \/ ResolveBulk(t, ConcEnv)
        \/ DriverInit(t)
        \/ StoreAndReturn(t)
        \/ Unwind(t)
        \/ LockWeak(t)
        \/ Release(t)
        \/ Destroy(t)

Spec == Init /\ [][Next]_vars

\* One consumer, constructing against libraries that lack more symbols.
NextSeq ==
    \E t \in SeqThreads :
        \/ Call(t, SeqHandles)
        \/ Acquire(t)
        \/ CheckExpired(t)
        \/ CtorLoad(t)
        \/ ResolveCritical(t, SeqEnv)
        \/ QueryVersion(t, SeqVersions)
        \/ ResolveBulk(t, SeqEnv)
        \/ DriverInit(t)
        \/ StoreAndReturn(t)
        \/ Unwind(t)
        \/ Release(t)
        \/ Destroy(t)
        \/ Version(t, SeqVersions)

SpecSeq == Init /\ [][NextSeq]_vars

\* One consumer and one construction against a complete library, the driver
\* reporting any version of DecodeVersions; built for the non-Windows target.
DecodeEnv == [lacking |-> {}, budget |-> 0]

InitDecode == Init /\ ~build.win

NextDecode ==
    \E t \in SeqThreads :
        \/ Call(t, 1)
        \/ Acquire(t)
        \/ CheckExpired(t)
        \/ CtorLoad(t)
        \/ ResolveCritical(t, DecodeEnv)
        \/ QueryVersion(t, DecodeVersions)
        \/ ResolveBulk(t, DecodeEnv)
        \/ DriverInit(t)
        \/ StoreAndReturn(t)
        \/ Unwind(t)
        \/ Release(t)
        \/ Destroy(t)

SpecDecode == InitDecode /\ [][NextDecode]_vars

\* Concurrent consumers, every thread that dropped the last reference going on to
\* finish the destructor it is running.
FairSpec == Spec /\ \A t \in Threads : WF_vars(Destroy(t))

\* A step of thread t inside cuda::get(), constructing against a complete library.
GetStep(t) ==
    \/ Acquire(t)
    \/ CheckExpired(t)
    \/ CtorLoad(t)
    \/ ResolveCritical(t, DecodeEnv)
    \/ QueryVersion(t, ConcVersions)
    \/ ResolveBulk(t, DecodeEnv)
    \/ DriverInit(t)
    \/ StoreAndReturn(t)
    \/ Unwind(t)
    \/ LockWeak(t)

\* Concurrent consumers of a library that can fail to open and is complete when it
\* opens.
NextGet ==
    \E t \in Threads :
        \/ Call(t, MaxHandles)
        \/ Acquire(t)
        \/ CheckExpired(t)
        \/ CtorLoad(t)
        \/ ResolveCritical(t, DecodeEnv)
        \/ QueryVersion(t, ConcVersions)
        \/ ResolveBulk(t, DecodeEnv)
        \/ DriverInit(t)
        \/ StoreAndReturn(t)
        \/ Unwind(t)
        \/ LockWeak(t)
        \/ Release(t)
        \/ Destroy(t)

\* ... under a fair scheduler: the library load, the lookups and the driver calls
\* return, and a thread that finds the mutex free again and again gets it in the end.
FairGetSpec ==
    InitDecode /\ [][NextGet]_vars /\ \A t \in Threads : SF_vars(GetStep(t))

\* ------------------------------------------------------------------ claims

\* Positions inside the constructor.
InCtor == {"load", "critical", "version", "bulk", "init"}

\* The object the latest construction built or tried to build (0: none yet).
Latest == nextId - 1

\* C1: while some strong reference to a handle is held throughout, every get()
\* returns that same handle, and no further construction sequence is started: the
\* handle was constructed once (one cuInit) and nothing is constructed beside it.
C1_SharedWhileHeld ==
    /\ [](\A t \in Threads : \A h \in heldSince[t] :
            /\ pc[t] \notin InCtor \cup {"store", "unwind"}
            /\ (pc[t] = "idle" => res[t] = HandleRef(h))
            /\ initCalls[h] = 1)
    /\ [][(\E h \in Handles, t \in Threads : res[t] = HandleRef(h) /\ res'[t] = HandleRef(h))
            => nextId' = nextId]_vars

\* C1 witness: three consumers hold the same handle, two of them having called get()
\* while it was held.
C1_Witness ==
    \E h \in Handles :
        /\ \A t \in Threads : res[t] = HandleRef(h) /\ pc[t] = "idle"
        /\ Cardinality({t \in Threads : heldSince[t] = {h}}) >= 2
        /\ strong[h] = 3

\* C2 (as claimed): whatever get() returns normally is a non-empty strong reference
\* to a Ready handle.
C2_ReturnsLiveHandle ==
    \A t \in Threads :
        (pc[t] = "idle" /\ res[t].kind \in {"handle", "null"})
            => (res[t].kind = "handle" /\ hstate[res[t].h] = "Ready")

\* C3 (as claimed): at most one handle is live, live meaning that its construction
\* has started and its destruction has not completed.
C3_AtMostOneExisting ==
    Cardinality({h \in Handles :
                    hstate[h] \in {"Loading", "Resolving", "DriverInit", "Ready"}}) <= 1

\* C3 (amended): at most one handle is under construction or strongly referenced.
C3_AtMostOneReferenced ==
    Cardinality({h \in Handles :
                    \/ hstate[h] \in {"Loading", "Resolving", "DriverInit"}
                    \/ strong[h] > 0
                    \/ \E t \in Threads : res[t] = HandleRef(h)}) <= 1

\* C3 witness: a new handle is being initialized by one thread while another thread
\* is still inside the destructor of the previous one.
C3_Witness ==
    \E h1, h2 \in Handles, t1, t2 \in Threads :
        /\ pc[t1] = "dtor" /\ dying[t1] = h1 /\ hstate[h1] = "Ready" /\ lib[h1] = "open"
        /\ pc[t2] = "init" /\ cur = h2 /\ h2 # h1 /\ lib[h2] = "open"

\* C4: a get() that finds no strong reference left starts exactly one construction,
\* of a new object, and returns that object, not the torn-down one; a get() that
\* finds the handle referenced starts none.
C4_ReconstructOnce ==
    [][\A t \in Threads :
          /\ (pc[t] = "check" /\ pc'[t] # "check")
                => IF instance = 0 \/ strong[instance] = 0
                   THEN /\ nextId' = nextId + 1
                        /\ pc'[t] = "load"
                        /\ cur' = nextId
                        /\ hstate[nextId] = "Unconstructed"
                        /\ hstate'[nextId] = "Loading"
                   ELSE nextId' = nextId /\ pc'[t] = "lockweak" /\ cur' = cur
          /\ (pc[t] = "store" /\ pc'[t] = "idle")
                => /\ res'[t] = HandleRef(Latest)
                   /\ instance' = Latest
                   /\ instance # Latest
                   /\ hstate[Latest] = "Ready"
                   /\ initCalls[Latest] = 1
                   /\ nextId' = nextId
          /\ nextId' \in {nextId, nextId + 1}
          /\ (nextId' # nextId => \E u \in Threads : pc[u] = "check")]_vars

\* C4 witness: the first handle was torn down and a consumer holds the second.
C4_Witness ==
    \E t \in Threads, h1, h2 \in Handles :
        /\ hstate[h1] = "Destroyed"
        /\ h2 > h1
        /\ res[t] = HandleRef(h2)
        /\ instance = h2

\* C5: when the native library cannot be opened, the construction fails without a
\* single symbol lookup, the failure reaches the caller of get(), nobody obtains the
\* object, and the registry is left expired (and unlocked) for a later attempt.
C5_LoadFailure ==
    /\ [](\A h \in Handles :
            lib[h] = "none" =>
                /\ hstate[h] \in {"Unconstructed", "Loading", "Failed"}
                /\ entry[h] = Unset
                /\ strong[h] = 0
                /\ instance # h
                /\ \A t \in Threads : res[t] # HandleRef(h)
                /\ (cur = h \/ (hstate[h] = "Failed" /\ h = Latest))
                        => (lookups = << >> /\ initCalls[h] = 0)
                /\ (hstate[h] = "Failed" /\ h = Latest) => thrown = LoadError(build))
    /\ [][\A t \in Threads :
            (pc[t] = "unwind" /\ pc'[t] # "unwind") =>
                /\ res'[t] = Failure
                /\ pc'[t] = "idle"
                /\ mutex' = 0
                /\ instance' = instance
                /\ (instance' = 0 \/ strong'[instance'] = 0)]_vars

\* C5 witness: after a failed library open a later get() is constructing again.
C5_Witness ==
    \E h \in Handles, t \in Threads :
        /\ hstate[h] = "Failed" /\ lib[h] = "none"
        /\ res[t] = Failure
        /\ cur > h /\ hstate[cur] = "Loading"

\* The entries of table tbl bound by a throwing macro, by a warning macro, and by a
\* macro that appends the version suffix.
Throwing(tbl) == {e \in Range(tbl) : e.macro \in {"SYMBOL", "SYMBOL_V2"}}
Warning(tbl) == {e \in Range(tbl) : e.macro \in {"SYMBOL_OPT", "SYMBOL_OPT_V2"}}
Versioned(tbl) == {e \in Range(tbl) : e.macro \in {"SYMBOL_V2", "SYMBOL_OPT_V2"}}

\* The logical names that any build binds with a versioned macro.
VersionedNames == {e.name : e \in Versioned(CriticalTable \o RemainingTable \o D3DTable)}

\* How many warnings of the latest construction name symbol n.
Warnings(n) ==
    Cardinality({i \in DOMAIN ctorLog : ctorLog[i].level = "WARNING" /\ ctorLog[i].sym = n})

\* C6: a required symbol (exact or _v2) that does not resolve fails the construction:
\* no object keeps a null required pointer, none gets to DriverInit or Ready without
\* all of them bound, and the object that threw is Failed, unreferenced and was never
\* initialized, whatever the optional symbols before it did.
C6_RequiredMissingFails ==
    LET ThrowingEntries == Throwing(FullTable(build))
        WarningEntries == Warning(FullTable(build))
        VersionedEntries == Versioned(FullTable(build))
        tbl == FullTable(build)
    IN
    /\ \A h \in Handles : \A e \in ThrowingEntries :
          /\ entry[h][e.name] # "null"
          /\ hstate[h] \in {"DriverInit", "Ready"} => entry[h][e.name] = "bound"
    /\ (thrown.thrown /\ thrown.stage = "symbol") =>
          /\ \E e \in ThrowingEntries :
                /\ thrown.what = e.name
                /\ lookups[Len(lookups)] =
                      (IF e.macro = "SYMBOL_V2" THEN e.name \o "_v2" ELSE e.name)
          /\ hstate[Latest] = "Failed"
          /\ strong[Latest] = 0
          /\ initCalls[Latest] = 0
          /\ instance # Latest
          /\ \A t \in Threads : res[t] # HandleRef(Latest)

\* C6 witness: a required memory-management symbol was missing after an optional
\* symbol had been missing too, and the caller got the failure.
C6_Witness ==
    /\ thrown.thrown /\ thrown.what = "cuMemAlloc"
    /\ Warnings("cuCtxGetCurrent") = 1
    /\ hstate[Latest] = "Failed"
    /\ res[1] = Failure

\* C7: missing optional symbols never fail a construction: every object that got
\* through resolution has each optional pointer either bound, with no warning naming
\* it, or null, with exactly one warning naming it; and no exception names an
\* optional symbol.
C7_OptionalMissingTolerated ==
    LET ThrowingEntries == Throwing(FullTable(build))
        WarningEntries == Warning(FullTable(build))
        VersionedEntries == Versioned(FullTable(build))
        tbl == FullTable(build)
    IN
    /\ \A h \in Handles :
          (h = Latest /\ hstate[h] \in {"DriverInit", "Ready"}) =>
              \A e \in WarningEntries :
                  \/ entry[h][e.name] = "bound" /\ Warnings(e.name) = 0
                  \/ entry[h][e.name] = "null" /\ Warnings(e.name) = 1
    /\ thrown.thrown => \A e \in WarningEntries : thrown.what # e.name
    /\ (Len(lookups) = Len(tbl) /\ ~thrown.thrown) =>
          hstate[Latest] \in {"DriverInit", "Ready", "Destroyed"}

\* C7 witness: a consumer holds a Ready handle that lacks one plain and one
\* versioned optional symbol.
C7_Witness ==
    LET ThrowingEntries == Throwing(FullTable(build))
        WarningEntries == Warning(FullTable(build))
        VersionedEntries == Versioned(FullTable(build))
        tbl == FullTable(build)
    IN
    \E h \in Handles :
        /\ res[1] = HandleRef(h)
        /\ hstate[h] = "Ready"
        /\ entry[h]["cuCtxGetCurrent"] = "null"
        /\ entry[h]["cuMemcpyAtoA"] = "null"
        /\ \A e \in ThrowingEntries : entry[h][e.name] = "bound"

\* C8: every handle a consumer got from get(), and every handle the registry points
\* to, was constructed to the end: it is Ready (or, in the registry, already torn
\* down), never Failed or part-way, and all its required pointers are bound.
C8_NoPartialHandle ==
    LET ThrowingEntries == Throwing(FullTable(build))
        WarningEntries == Warning(FullTable(build))
        VersionedEntries == Versioned(FullTable(build))
        tbl == FullTable(build)
    IN
    /\ \A t \in Threads :
          res[t].kind = "handle" =>
              /\ hstate[res[t].h] = "Ready"
              /\ \A e \in ThrowingEntries : entry[res[t].h][e.name] = "bound"
    /\ instance # 0 =>
          /\ hstate[instance] \in {"Ready", "Destroyed"}
          /\ hstate[instance] = "Ready" =>
                \A e \in ThrowingEntries : entry[instance][e.name] = "bound"

\* C8 witness: one construction stopped at a missing required symbol, and two
\* consumers share the handle a later construction completed.
C8_Witness ==
    \E h1, h2 \in Handles, t1, t2 \in Threads :
        /\ hstate[h1] = "Failed" /\ lib[h1] = "closed"
        /\ t1 # t2
        /\ res[t1] = HandleRef(h2) /\ res[t2] = HandleRef(h2)
        /\ instance = h2

\* C9: the native library of a handle is open as long as a consumer holds a strong
\* reference to it and is closed only for an object that is gone; once nobody holds
\* a constructed handle any more, its library is eventually closed.
C9_LibraryLifetime ==
    /\ [](\A t \in Threads : res[t].kind = "handle" => lib[res[t].h] = "open")
    /\ [](\A h \in Handles : lib[h] = "closed" =>
            (strong[h] = 0 /\ hstate[h] \in {"Destroyed", "Failed"}))
    /\ \A h \in Handles :
          (hstate[h] = "Ready" /\ cur # h /\ \A t \in Threads : res[t] # HandleRef(h))
              ~> (lib[h] = "closed")

\* C9 witness: a handle was constructed and initialized, every consumer has let go
\* of it, and its destructor has closed the library.
C9_Witness ==
    \E h \in Handles :
        /\ hstate[h] = "Destroyed" /\ lib[h] = "closed"
        /\ initCalls[h] = 1
        /\ \A t \in Threads : pc[t] = "idle" /\ res[t].kind = "none"

\* C10: the k-th lookup of a construction passes the k-th table entry's logical name
\* with "_v2" appended when the entry is versioned and unchanged otherwise; the plain
\* name of a versioned entry is never looked up; the pointer is the member named X.
C10_VersionedLookup ==
    LET ThrowingEntries == Throwing(FullTable(build))
        WarningEntries == Warning(FullTable(build))
        VersionedEntries == Versioned(FullTable(build))
        tbl == FullTable(build)
    IN
    /\ Len(lookups) <= Len(tbl)
    /\ \A i \in DOMAIN lookups :
          /\ lookups[i] = (IF tbl[i].macro \in {"SYMBOL_V2", "SYMBOL_OPT_V2"}
                           THEN tbl[i].name \o "_v2"
                           ELSE tbl[i].name)
          /\ lookups[i] \notin VersionedNames
    /\ \A h \in Handles : hstate[h] \in {"DriverInit", "Ready"} =>
          \A e \in VersionedEntries :
              /\ entry[h][e.name] \in {"bound", "null"}
              /\ e.macro = "SYMBOL_V2" => entry[h][e.name] = "bound"

\* C10 witness: a Ready handle whose cuCtxCreate was resolved as cuCtxCreate_v2 and
\* whose optional cuMemcpyAtoA_v2 was looked up and not found.
C10_Witness ==
    \E h \in Handles :
        /\ hstate[h] = "Ready" /\ h = Latest
        /\ \E i \in DOMAIN lookups : lookups[i] = "cuCtxCreate_v2"
        /\ \E i \in DOMAIN lookups : lookups[i] = "cuMemcpyAtoA_v2"
        /\ entry[h]["cuCtxCreate"] = "bound"
        /\ entry[h]["cuMemcpyAtoA"] = "null"

\* C11: in every construction the first lookup is cuInit and the second is
\* cuDriverGetVersion; a third lookup is made only when both returned an address;
\* when either returned null the construction has failed, naming it, with no lookup
\* after it.
C11_CriticalPairFirst ==
    /\ Len(lookups) >= 1 => lookups[1] = "cuInit"
    /\ Len(lookups) >= 2 => lookups[2] = "cuDriverGetVersion"
    /\ Len(lookups) > 2 => (answers[1] /\ answers[2])
    /\ \A k \in {1, 2} :
          (Len(answers) >= k /\ ~answers[k]) =>
              /\ Len(lookups) = k
              /\ thrown.thrown /\ thrown.stage = "symbol"
              /\ thrown.what = lookups[k]
              /\ hstate[Latest] = "Failed"
              /\ initCalls[Latest] = 0

\* A construction that found cuInit and not cuDriverGetVersion has failed and get()
\* has let the failure through, after two lookups.
C11_Witness ==
    /\ lookups = << "cuInit", "cuDriverGetVersion" >>
    /\ answers = << TRUE, FALSE >>
    /\ thrown.what = "cuDriverGetVersion"
    /\ pc[1] = "idle" /\ res[1] = Failure

\* The lines of the latest construction's log that report the driver version.
VersionLines == {i \in DOMAIN ctorLog : ctorLog[i].msg = "Driver reported CUDA version"}

\* C12: the version a successful query reported as raw value v is logged as
\* major = v/1000, minor = (v%1000)/10, patch = v%10 in integer division, so that
\* v = major*1000 + minor*10 + patch with minor < 100 and patch < 10; 11020 is logged
\* as 11.2.0 and 11060 as 11.6.0.
C12_VersionDecoding ==
    \A i \in VersionLines :
        LET v == cuda_version
            major == ctorLog[i].ver[1]
            minor == ctorLog[i].ver[2]
            patch == ctorLog[i].ver[3]
        IN /\ v \in Nat
           /\ major = v \div 1000
           /\ minor = (v % 1000) \div 10
           /\ patch = v % 10
           /\ v = major * 1000 + minor * 10 + patch
           /\ minor \in 0..99 /\ patch \in 0..9
           /\ v = 11020 => << major, minor, patch >> = << 11, 2, 0 >>
           /\ v = 11060 => << major, minor, patch >> = << 11, 6, 0 >>

\* The driver reported 11060, the log says 11.6.0, and the handle is Ready and in
\* the consumer's hand.
C12_Witness ==
    /\ cuda_version = 11060
    /\ \E i \in VersionLines : ctorLog[i].ver = << 11, 6, 0 >>
    /\ hstate[1] = "Ready"
    /\ res[1] = HandleRef(1)

\* C13: every call of version() on a handle in hand returns, and does not fault: it
\* returns the value the driver wrote when the driver call succeeded, and 0 when the
\* driver call failed without writing; the call leaves the entry points, the
\* registry, the reference counts and the lifecycle states as they were.
C13_VersionNeverFails ==
    /\ [](vcall.made =>
            /\ hstate[vcall.h] = "Ready"
            /\ vcall.how = "return"
            /\ vcall.ok => vcall.ret = vcall.v
            /\ (~vcall.ok /\ ~vcall.wrote) => vcall.ret = 0)
    /\ [][(vcall'.made /\ vcall' # vcall) =>
            /\ entry' = entry
            /\ instance' = instance
            /\ strong' = strong
            /\ hstate' = hstate
            /\ res' = res
            /\ mutex' = mutex]_vars

\* version() was called on the Ready handle in hand, the driver call failed without
\* writing, and 0 came back.
C13_Witness ==
    /\ vcall.made /\ ~vcall.ok /\ ~vcall.wrote
    /\ vcall.ret = 0
    /\ res[1] = HandleRef(vcall.h)
    /\ hstate[vcall.h] = "Ready"

\* The lines of the latest construction's log that the version query wrote: the
\* report or the warning.
QueryLines ==
    {i \in DOMAIN ctorLog :
        ctorLog[i].msg \in {"Driver reported CUDA version",
                            "Failed to query NVIDIA CUDA Driver for version"}}

\* C14 (as claimed): the version query is made in DriverInit: a construction that
\* has made it has bound all its required symbols, and one that failed while
\* resolving has made none.
C14_QueryInDriverInit ==
    \A h \in Handles :
        (h = Latest /\ QueryLines # {}) => hstate[h] \in {"DriverInit", "Ready", "Destroyed"}

\* C14 (amended): the version query is made once, while resolving, right after
\* cuInit and cuDriverGetVersion were found and before any other symbol is looked
\* up; cuInit is invoked only after it; a construction that failed on the library
\* or on one of the first two symbols has made no query.
C14_QueryAfterCriticalPair ==
    /\ Cardinality(QueryLines) <= 1
    /\ QueryLines # {} => (Len(lookups) >= 2 /\ answers[1] /\ answers[2])
    /\ Len(lookups) > 2 => QueryLines # {}
    /\ \A h \in Handles : (h = Latest /\ initCalls[h] > 0) => QueryLines # {}
    /\ (thrown.thrown /\ (thrown.stage = "load" \/ Len(lookups) <= 2)) => QueryLines = {}

\* A construction failed on cuMemAlloc, a required symbol of block 3, after its
\* version query was made and logged.
C14_Witness ==
    /\ thrown.thrown /\ thrown.what = "cuMemAlloc"
    /\ QueryLines # {}
    /\ hstate[Latest] = "Failed"
    /\ res[1] = Failure

\* C15: a construction that got to Ready has invoked cuInit exactly once, and any
\* other construction never; the invocation comes when every lookup of the build's
\* table has been made, and no lookup follows it; a get() that finds the handle
\* referenced invokes nothing.
C15_InitOnce ==
    /\ [](\A h \in Handles :
            /\ hstate[h] \in {"Ready", "Destroyed"} => initCalls[h] = 1
            /\ hstate[h] \in {"Unconstructed", "Loading", "Resolving", "DriverInit", "Failed"}
                  => initCalls[h] = 0
            /\ (h = Latest /\ initCalls[h] > 0) => Len(lookups) = Len(FullTable(build)))
    /\ [][\A h \in Handles :
            initCalls'[h] # initCalls[h] =>
                /\ h = cur
                /\ initCalls'[h] = initCalls[h] + 1
                /\ Len(lookups) = Len(FullTable(build))
                /\ lookups' = lookups
                /\ hstate[h] = "DriverInit"]_vars
    /\ [][\A t \in Threads :
            (pc[t] \in {"check", "lockweak"} /\ pc'[t] \in {"lockweak", "idle"})
                => initCalls' = initCalls]_vars

\* One construction failed and invoked nothing; the next got to Ready with one
\* cuInit, and a second consumer has since been given the same handle.
C15_Witness ==
    \E h1, h2 \in Handles :
        /\ hstate[h1] = "Failed" /\ initCalls[h1] = 0
        /\ hstate[h2] = "Ready" /\ initCalls[h2] = 1
        /\ strong[h2] >= 2
        /\ \A t \in Threads : pc[t] = "idle"

\* C16: a construction fails only on the library or on a required symbol that the
\* library does not have; whatever result the version query and cuInit return, the
\* constructor goes on, the handle gets to Ready and get() returns it; a failed
\* query adds one warning to the log and nothing else.
C16_ResultCodesIgnored ==
    /\ [](thrown.thrown => thrown.stage \in {"load", "symbol"})
    /\ [](\A h \in Handles :
            (h = Latest /\ hstate[h] = "Failed") =>
                /\ thrown.thrown
                /\ thrown.stage = "symbol" => (answers # << >> /\ ~answers[Len(answers)])
                /\ thrown.stage = "load" => lib[h] = "none")
    /\ [][\A t \in Threads :
            /\ (pc[t] = "version" /\ pc'[t] # "version") =>
                  /\ pc'[t] = "bulk"
                  /\ thrown' = thrown /\ hstate' = hstate /\ entry' = entry
                  /\ Len(ctorLog') = Len(ctorLog) + 1
                  /\ \/ ctorLog'[Len(ctorLog')].level = "INFO"
                     \/ /\ ctorLog'[Len(ctorLog')].level = "WARNING"
                        /\ cuda_version' = cuda_version
            /\ (pc[t] = "init" /\ pc'[t] # "init") =>
                  /\ pc'[t] = "store"
                  /\ initResult' \in {"SUCCESS", "ERROR"}
                  /\ hstate'[cur] = "Ready"
                  /\ thrown' = thrown
            /\ (pc[t] = "store" /\ pc'[t] # "store") =>
                  /\ res'[t].kind = "handle"
                  /\ hstate'[res'[t].h] = "Ready"]_vars

\* The version query failed and cuInit returned an error, and the consumer holds
\* the Ready handle all the same.
C16_Witness ==
    \E h \in Handles :
        /\ h = Latest
        /\ \E i \in QueryLines : ctorLog[i].level = "WARNING"
        /\ initResult = "ERROR"
        /\ hstate[h] = "Ready"
        /\ res[1] = HandleRef(h)

\* C17: a construction that failed holds no open library: when a required symbol
\* was missing, the library the construction had opened is closed by the time the
\* failure leaves the constructor, and so when the caller of get() has it.
C17_LibraryReleasedOnFailure ==
    /\ \A h \in Handles : hstate[h] = "Failed" => lib[h] \in {"none", "closed"}
    /\ \A h \in Handles :
          lib[h] = "open" => (hstate[h] \in {"Resolving", "DriverInit", "Ready"})
    /\ \A t \in Threads, h \in Handles :
          (h = Latest /\ thrown.thrown /\ thrown.stage = "symbol"
                /\ (pc[t] = "unwind" \/ res[t] = Failure))
             => lib[h] = "closed"

\* The caller of get() has the failure of a construction that opened the library and
\* then missed cuCtxCreate; the library is closed.
C17_Witness ==
    /\ thrown.thrown /\ thrown.what = "cuCtxCreate"
    /\ pc[1] = "idle" /\ res[1] = Failure
    /\ lib[Latest] = "closed"
    /\ \A h \in Handles : lib[h] # "open"

C19_FirstMissingNamed ==
    LET tbl == FullTable(build)
        k == Len(lookups)
    IN  (thrown.thrown /\ thrown.stage = "symbol") =>
            /\ k \in 1..Len(tbl)
            /\ Len(answers) = k /\ ~answers[k]
            /\ tbl[k].macro \in {"SYMBOL", "SYMBOL_V2"}
            /\ lookups[k] = IF tbl[k].macro = "SYMBOL_V2"
                            THEN tbl[k].name \o "_v2" ELSE tbl[k].name
            /\ thrown.what = tbl[k].name
            /\ thrown.from = IF build.win THEN "nvcuda.dll" ELSE "libcuda.so.1"
            /\ \A i \in 1..(k - 1) :
                  tbl[i].macro \in {"SYMBOL", "SYMBOL_V2"} => answers[i]
            /\ \A i \in DOMAIN ctorLog :
                  ctorLog[i].sym # "" => \E j \in 1..(k - 1) : tbl[j].name = ctorLog[i].sym

\* On a Windows build the library lacked the optional cuMemcpyAtoA_v2 and the
\* required cuStreamDestroy_v2: the failure names cuStreamDestroy and nvcuda.dll.
C19_Witness ==
    /\ thrown.thrown /\ thrown.what = "cuStreamDestroy" /\ thrown.from = "nvcuda.dll"
    /\ lookups[Len(lookups)] = "cuStreamDestroy_v2"
    /\ \E i \in DOMAIN ctorLog : ctorLog[i].sym = "cuMemcpyAtoA"
    /\ res[1] = Failure

\* C20 (as claimed): a build for a target other than Windows looks up none of the
\* four Direct3D symbols; a build for the Windows target, the one that loads
\* nvcuda.dll, looks up all four before it invokes cuInit, and its Ready handle has
\* cuD3D10GetDevice and cuD3D11GetDevice bound.
C20_D3DOnWindowsTarget ==
    LET D3DNames == {"cuD3D10GetDevice", "cuGraphicsD3D10RegisterResource",
                     "cuD3D11GetDevice", "cuGraphicsD3D11RegisterResource"}
        LookedUp == {lookups[i] : i \in DOMAIN lookups}
    IN  /\ ~build.win => LookedUp \cap D3DNames = {}
        /\ \A h \in Handles :
              (build.win /\ h = Latest /\ initCalls[h] > 0) =>
                  /\ D3DNames \subseteq LookedUp
                  /\ hstate[h] = "Ready" =>
                        /\ entry[h]["cuD3D10GetDevice"] = "bound"
                        /\ entry[h]["cuD3D11GetDevice"] = "bound"
                        /\ entry[h]["cuGraphicsD3D10RegisterResource"] \in {"bound", "null"}
                        /\ entry[h]["cuGraphicsD3D11RegisterResource"] \in {"bound", "null"}

====
